---------------------------- MODULE Spec2Model ----------------------------
(***************************************************************************)
(* Payroll computation engine of src/app.py: the income-tax engine, the    *)
(* attendance deductions, the payroll assembly, annual leave accrual.      *)
(*                                                                         *)
(* The program computes with Python numbers: int is unbounded, float is an *)
(* IEEE-754 binary64 and int(x) truncates.  The truncated results depend   *)
(* on the rounding of every float operation (int(3000000 * 0.009) is       *)
(* 26999), so floats are modelled bit-exactly: a float is a 53-bit         *)
(* mantissa, kept as a little-endian sequence of base-2^10 limbs, and a    *)
(* binary exponent, and every operation rounds to nearest, ties to even.   *)
(***************************************************************************)
EXTENDS Integers, Sequences, FiniteSets, TLC

\* the element of a one-element set.  Only({e : x \in {v}}) is e with x
\* assigned v once: a local variable, evaluated where it is assigned
Only(S) == CHOOSE x \in S : TRUE

Max(a, b) == IF a >= b THEN a ELSE b
Min(a, b) == IF a <= b THEN a ELSE b

(***************************************************************************)
(* Natural numbers of any size: sequences of limbs, least significant      *)
(* first, no leading zero limb; <<>> is 0.                                 *)
(***************************************************************************)
Base == 2^10

\* a without its leading zero limbs
BigNorm(a) ==
    Only({ SubSeq(v, 1, Cardinality({i \in 1..Len(v) : \E j \in i..Len(v) : v[j] # 0}))
           : v \in {a} })

BigFromInt(n) ==
    Only({ BigNorm(<< v % Base, (v \div Base) % Base,
                      (v \div (Base * Base)) % Base, v \div (Base * Base * Base) >>)
           : v \in {n} })

RECURSIVE BigToIntFrom(_, _)
BigToIntFrom(a, i) ==
    IF i > Len(a) THEN 0 ELSE a[i] + Base * BigToIntFrom(a, i + 1)

BigToInt(a) == Only({ BigToIntFrom(v, 1) : v \in {a} })

Limb(a, i) == IF i <= Len(a) THEN a[i] ELSE 0

RECURSIVE BigAddFrom(_, _, _, _)
BigAddFrom(a, b, i, c) ==
    IF i > Max(Len(a), Len(b))
    THEN (IF c = 0 THEN <<>> ELSE <<c>>)
    ELSE Only({ <<s % Base>> \o BigAddFrom(a, b, j, s \div Base)
                : s \in {Limb(a, i) + Limb(b, i) + c}, j \in {i + 1} })

BigAdd(a, b) == Only({ BigAddFrom(x, y, 1, 0) : x \in {a}, y \in {b} })

\* a - b for a >= b
RECURSIVE BigSubFrom(_, _, _, _)
BigSubFrom(a, b, i, br) ==
    IF i > Len(a) THEN <<>>
    ELSE Only({ IF d < 0 THEN <<d + Base>> \o BigSubFrom(a, b, j, 1)
                ELSE <<d>> \o BigSubFrom(a, b, j, 0)
                : d \in {Limb(a, i) - Limb(b, i) - br}, j \in {i + 1} })

BigSub(a, b) == Only({ BigNorm(BigSubFrom(x, y, 1, 0)) : x \in {a}, y \in {b} })

\* -1, 0 or 1 as a < b, a = b, a > b
RECURSIVE BigCmpFrom(_, _, _)
BigCmpFrom(a, b, i) ==
    IF i = 0 THEN 0
    ELSE IF a[i] < b[i] THEN -1
    ELSE IF a[i] > b[i] THEN 1
    ELSE Only({ BigCmpFrom(a, b, j) : j \in {i - 1} })

BigCmp(a, b) ==
    Only({ IF Len(x) < Len(y) THEN -1
           ELSE IF Len(x) > Len(y) THEN 1
           ELSE BigCmpFrom(x, y, Len(x))
           : x \in {a}, y \in {b} })

\* a * k for a small k (k < 2^20)
RECURSIVE BigMulSmallFrom(_, _, _, _)
BigMulSmallFrom(a, k, i, c) ==
    IF i > Len(a)
    THEN (IF c = 0 THEN <<>> ELSE BigFromInt(c))
    ELSE Only({ <<s % Base>> \o BigMulSmallFrom(a, k, j, s \div Base)
                : s \in {a[i] * k + c}, j \in {i + 1} })

BigMulSmall(a, k) ==
    Only({ IF n = 0 THEN <<>> ELSE BigMulSmallFrom(x, n, 1, 0) : x \in {a}, n \in {k} })

\* a times the limbs i.. of b
RECURSIVE BigMulFrom(_, _, _)
BigMulFrom(a, b, i) ==
    IF i > Len(b) THEN <<>>
    ELSE Only({ BigAdd(BigMulSmall(a, b[i]),
                       IF rest = <<>> THEN <<>> ELSE <<0>> \o rest)
                : rest \in {BigMulFrom(a, b, i + 1)} })

BigMul(a, b) ==
    Only({ IF x = <<>> \/ y = <<>> THEN <<>> ELSE BigMulFrom(x, y, 1)
           : x \in {a}, y \in {b} })

\* quotient and remainder of a by a small d (d < 2^21), limbs i..1 with
\* the remainder r carried in from the limbs above
RECURSIVE BigDivFrom(_, _, _, _)
BigDivFrom(a, d, i, r) ==
    IF i = 0 THEN [q |-> <<>>, r |-> r]
    ELSE Only({ Only({ [q |-> rest.q \o <<cur \div d>>, r |-> rest.r]
                       : rest \in {BigDivFrom(a, d, i - 1, cur % d)} })
                : cur \in {r * Base + a[i]} })

BigDivSmall(a, d) ==
    Only({ Only({ [q |-> BigNorm(dr.q), r |-> dr.r]
                  : dr \in {BigDivFrom(x, n, Len(x), 0)} })
           : x \in {a}, n \in {d} })

RECURSIVE BitLenSmall(_)
BitLenSmall(x) ==
    IF x = 0 THEN 0 ELSE Only({ 1 + BitLenSmall(h) : h \in {x \div 2} })

BigBitLen(a) ==
    Only({ IF x = <<>> THEN 0 ELSE 10 * (Len(x) - 1) + BitLenSmall(x[Len(x)])
           : x \in {a} })

Zeros(n) == [i \in 1..n |-> 0]

\* a * 2^k
BigShl(a, k) ==
    Only({ IF x = <<>> THEN <<>>
           ELSE Zeros(n \div 10) \o BigMulSmall(x, 2^(n % 10))
           : x \in {a}, n \in {k} })

\* floor(a / 2^k)
BigShr(a, k) ==
    Only({ IF n \div 10 >= Len(x) THEN <<>>
           ELSE BigDivSmall(SubSeq(x, n \div 10 + 1, Len(x)), 2^(n % 10)).q
           : x \in {a}, n \in {k} })

(***************************************************************************)
(* binary64: [m, e] is m * 2^e, with m = 0 (and e = 0) or 2^52 <= m < 2^53,*)
(* so that two floats are equal exactly when their records are.  Only      *)
(* non-negative finite values occur in the modelled code.                  *)
(***************************************************************************)
FZero == [m |-> <<>>, e |-> 0]

\* FRound for a mantissa m of more than 53 bits: s bits are dropped, q is
\* the mantissa without them
FRoundOff(m, e, sticky, s, q) ==
    Only({ Only({ IF BigBitLen(q2) > 53
                  THEN [m |-> BigShr(q2, 1), e |-> e + s + 1]
                  ELSE [m |-> q2, e |-> e + s]
                  : q2 \in {IF c > 0 \/ (c = 0 /\ (sticky \/ q[1] % 2 = 1))
                            THEN BigAdd(q, <<1>>) ELSE q} })
           : c \in {BigCmp(BigSub(m, BigShl(q, s)), BigShl(<<1>>, s - 1))} })

\* the float nearest to (m + f) * 2^e, where 0 <= f < 1 and sticky says f > 0
\* (f > 0 only when m has more than 53 bits): round to nearest, ties to even
FRound(m, e, sticky) ==
    Only({ IF mv = <<>> THEN FZero
           ELSE Only({ IF L <= 53
                       THEN [m |-> BigShl(mv, 53 - L), e |-> ev - (53 - L)]
                       ELSE Only({ FRoundOff(mv, ev, st, L - 53, q)
                                   : q \in {BigShr(mv, L - 53)} })
                       : L \in {BigBitLen(mv)} })
           : mv \in {m}, ev \in {e}, st \in {sticky} })

\* float(n) of an int n >= 0
FInt(n) == FRound(BigFromInt(n), 0, FALSE)

FMul(x, y) ==
    Only({ FRound(BigMul(a.m, b.m), a.e + b.e, FALSE) : a \in {x}, b \in {y} })

\* FAdd, FCmp and FSub bring both mantissas to the smaller exponent
FAdd(x, y) ==
    Only({ IF a.m = <<>> THEN b
           ELSE IF b.m = <<>> THEN a
           ELSE Only({ FRound(BigAdd(BigShl(a.m, a.e - e), BigShl(b.m, b.e - e)),
                              e, FALSE)
                       : e \in {Min(a.e, b.e)} })
           : a \in {x}, b \in {y} })

FCmp(x, y) ==
    Only({ IF a.m = <<>> THEN (IF b.m = <<>> THEN 0 ELSE -1)
           ELSE IF b.m = <<>> THEN 1
           ELSE Only({ BigCmp(BigShl(a.m, a.e - e), BigShl(b.m, b.e - e))
                       : e \in {Min(a.e, b.e)} })
           : a \in {x}, b \in {y} })

\* x - y for x >= y
FSub(x, y) ==
    Only({ IF b.m = <<>> THEN a
           ELSE Only({ FRound(BigSub(BigShl(a.m, a.e - e), BigShl(b.m, b.e - e)),
                              e, FALSE)
                       : e \in {Min(a.e, b.e)} })
           : a \in {x}, b \in {y} })

\* x / d for an int d, 0 < d < 2^21 (d is exact as a float)
FDivInt(x, d) ==
    Only({ IF a.m = <<>> THEN FZero
           ELSE Only({ FRound(dr.q, a.e - 30, dr.r # 0)
                       : dr \in {BigDivSmall(BigShl(a.m, 30), d)} })
           : a \in {x} })

\* the float a decimal literal p/q denotes, such as 0.045 = 45/1000
FDec(p, q) == FDivInt(FInt(p), q)

\* int(x): truncation
FTrunc(x) ==
    Only({ IF a.e >= 0 THEN BigToInt(BigShl(a.m, a.e))
           ELSE BigToInt(BigShr(a.m, -a.e))
           : a \in {x} })

\* x is a whole number
FIsInt(x) ==
    Only({ a.e >= 0 \/ BigShl(BigShr(a.m, -a.e), -a.e) = a.m : a \in {x} })

(***************************************************************************)
(* Income tax and resident tax (src/app.py 57-165)                         *)
(***************************************************************************)
\* mutant: the third tier starts from 8,500,000 instead of 7,500,000
calculate_salary_income_deduction_mut(annual_gross_salary) ==
    IF annual_gross_salary <= 5000000
    THEN FTrunc(FMul(FInt(annual_gross_salary), FDec(7, 10)))
    ELSE IF annual_gross_salary <= 15000000
    THEN FTrunc(FAdd(FInt(3500000),
                     FMul(FInt(annual_gross_salary - 5000000), FDec(4, 10))))
    ELSE IF annual_gross_salary <= 45000000
    THEN FTrunc(FAdd(FInt(8500000),
                     FMul(FInt(annual_gross_salary - 15000000), FDec(15, 100))))
    ELSE IF annual_gross_salary <= 100000000
    THEN FTrunc(FAdd(FInt(12000000),
                     FMul(FInt(annual_gross_salary - 45000000), FDec(5, 100))))
    ELSE FTrunc(FAdd(FInt(14750000),
                     FMul(FInt(annual_gross_salary - 100000000), FDec(2, 100))))

calculate_salary_income_deduction(annual_gross_salary) ==
    IF annual_gross_salary <= 5000000
    THEN FTrunc(FMul(FInt(annual_gross_salary), FDec(7, 10)))
    ELSE IF annual_gross_salary <= 15000000
    THEN FTrunc(FAdd(FInt(3500000),
                     FMul(FInt(annual_gross_salary - 5000000), FDec(4, 10))))
    ELSE IF annual_gross_salary <= 45000000
    THEN FTrunc(FAdd(FInt(7500000),
                     FMul(FInt(annual_gross_salary - 15000000), FDec(15, 100))))
    ELSE IF annual_gross_salary <= 100000000
    THEN FTrunc(FAdd(FInt(12000000),
                     FMul(FInt(annual_gross_salary - 45000000), FDec(5, 100))))
    ELSE FTrunc(FAdd(FInt(14750000),
                     FMul(FInt(annual_gross_salary - 100000000), FDec(2, 100))))

calculate_personal_deductions(family_count) == family_count * 1500000

calculate_correct_annual_taxable_income(monthly_salary, family_count) ==
    Only({ Only({
        [annual_gross_salary     |-> annual_gross_salary,
         salary_income_deduction |-> salary_income_deduction,
         salary_income           |-> annual_gross_salary - salary_income_deduction,
         personal_deductions     |-> personal_deductions,
         taxable_income          |->
             Max(0, annual_gross_salary - salary_income_deduction - personal_deductions)]
        : salary_income_deduction \in {calculate_salary_income_deduction(annual_gross_salary)},
          personal_deductions \in {calculate_personal_deductions(family_count)} })
        : annual_gross_salary \in {monthly_salary * 12} })

\* the bracket list: (limit, rate), the rate as the float its literal
\* denotes; the last limit is float('inf')
tax_brackets ==
    << [inf |-> FALSE, limit |-> 14000000,   rate |-> FDec(6, 100)],
       [inf |-> FALSE, limit |-> 50000000,   rate |-> FDec(15, 100)],
       [inf |-> FALSE, limit |-> 88000000,   rate |-> FDec(24, 100)],
       [inf |-> FALSE, limit |-> 150000000,  rate |-> FDec(35, 100)],
       [inf |-> FALSE, limit |-> 300000000,  rate |-> FDec(38, 100)],
       [inf |-> FALSE, limit |-> 500000000,  rate |-> FDec(40, 100)],
       [inf |-> FALSE, limit |-> 1000000000, rate |-> FDec(42, 100)],
       [inf |-> TRUE,  limit |-> 0,          rate |-> FDec(45, 100)] >>

\* mutant: prev_limit is not moved up to the limit of the bracket passed
RECURSIVE BracketLoop_mut(_, _, _, _)
BracketLoop_mut(taxable_income, i, total_tax, prev_limit) ==
    IF i > Len(tax_brackets) THEN total_tax
    ELSE Only({ IF b.inf \/ taxable_income <= b.limit
                THEN FAdd(tt, FMul(FInt(taxable_income - prev_limit), b.rate))
                ELSE BracketLoop_mut(taxable_income, i + 1,
                                     FAdd(tt, FMul(FInt(b.limit - prev_limit), b.rate)),
                                     prev_limit)
                : b \in {tax_brackets[i]}, tt \in {total_tax} })

\* the for loop over tax_brackets from bracket i on
RECURSIVE BracketLoop(_, _, _, _)
BracketLoop(taxable_income, i, total_tax, prev_limit) ==
    IF i > Len(tax_brackets) THEN total_tax
    ELSE Only({ IF b.inf \/ taxable_income <= b.limit
                THEN FAdd(tt, FMul(FInt(taxable_income - prev_limit), b.rate))
                ELSE BracketLoop(taxable_income, i + 1,
                                 FAdd(tt, FMul(FInt(b.limit - prev_limit), b.rate)),
                                 b.limit)
                : b \in {tax_brackets[i]}, tt \in {total_tax} })

calculate_correct_progressive_income_tax(taxable_income) ==
    IF taxable_income <= 0 THEN FZero
    ELSE BracketLoop(taxable_income, 1, FZero, 0)

calculate_child_tax_credit(family_count) == Max(0, family_count - 1) * 150000

\* max(0, annual_income_tax_gross - child_tax_credit)
TaxAfterCredit(annual_income_tax_gross, child_tax_credit) ==
    Only({ IF FCmp(g, c) <= 0 THEN FZero ELSE FSub(g, c)
           : g \in {annual_income_tax_gross}, c \in {FInt(child_tax_credit)} })

\* mutant: the rate written as 0.01
AnnualLocalTax_mut(annual_income_tax) == FTrunc(FMul(annual_income_tax, FDec(1, 100)))

\* int(annual_income_tax * 0.1)
AnnualLocalTax(annual_income_tax) == FTrunc(FMul(annual_income_tax, FDec(1, 10)))

\* int(annual_income_tax / 12)
MonthlyIncomeTax(annual_income_tax) == FTrunc(FDivInt(annual_income_tax, 12))

\* int(annual_local_tax / 12)
MonthlyLocalTax(annual_local_tax) == FTrunc(FDivInt(FInt(annual_local_tax), 12))

\* effective_rate, a display percentage no other field is computed from,
\* is left out of the record
calculate_correct_taxes_for_payroll(monthly_salary, family_count) ==
    Only({ Only({ Only({
        [income_tax              |-> MonthlyIncomeTax(annual_income_tax),
         resident_tax            |-> MonthlyLocalTax(AnnualLocalTax(annual_income_tax)),
         taxable_income          |-> tax_calc.taxable_income,
         salary_income_deduction |-> tax_calc.salary_income_deduction,
         personal_deductions     |-> tax_calc.personal_deductions,
         child_tax_credit        |-> child_tax_credit,
         annual_income_tax_before_credit |-> annual_income_tax_gross,
         annual_income_tax_after_credit  |-> annual_income_tax]
        : annual_income_tax \in {TaxAfterCredit(annual_income_tax_gross, child_tax_credit)} })
        : annual_income_tax_gross \in
              {calculate_correct_progressive_income_tax(tax_calc.taxable_income)},
          child_tax_credit \in {calculate_child_tax_credit(family_count)} })
        : tax_calc \in {calculate_correct_annual_taxable_income(monthly_salary, family_count)} })

(***************************************************************************)
(* Calendar: datetime.date as (year, month, day), date.toordinal() and     *)
(* date.weekday() of the proleptic Gregorian calendar                      *)
(***************************************************************************)
IsLeap(y) == (y % 4 = 0 /\ y % 100 # 0) \/ y % 400 = 0

DaysInMonth(y, m) ==
    IF m = 2 THEN (IF IsLeap(y) THEN 29 ELSE 28)
    ELSE IF m \in {4, 6, 9, 11} THEN 30 ELSE 31

\* datetime(y, m, d) raises ValueError on anything else
ValidDate(y, m, d) ==
    y \in 1..9999 /\ m \in 1..12 /\ d >= 1 /\ d <= DaysInMonth(y, m)

DaysBeforeYear(y) ==
    (y - 1) * 365 + (y - 1) \div 4 - (y - 1) \div 100 + (y - 1) \div 400

RECURSIVE DaysBeforeMonth(_, _)
DaysBeforeMonth(y, m) ==
    IF m = 1 THEN 0
    ELSE Only({ DaysBeforeMonth(y, p) + DaysInMonth(y, p) : p \in {m - 1} })

toordinal(y, m, d) ==
    Only({ DaysBeforeYear(yv) + DaysBeforeMonth(yv, mv) + d : yv \in {y}, mv \in {m} })

\* Monday is 0
weekday(ordinal) == (ordinal + 6) % 7

(***************************************************************************)
(* Workdays and attendance deductions (src/app.py 250-360)                 *)
(***************************************************************************)
\* the while loop: current_date up to last_day, both as ordinals
RECURSIVE WorkdayLoop(_, _, _)
WorkdayLoop(current_date, last_day, workdays) ==
    IF current_date > last_day THEN workdays
    ELSE Only({ WorkdayLoop(next, last_day, w)
                : next \in {current_date + 1},
                  w \in {IF weekday(current_date) < 5 THEN workdays + 1 ELSE workdays} })

\* datetime(year, month, 1) raising, or current_date += timedelta(days=1)
\* raising past date.max (December 9999), ends in the except branch
get_workdays_in_month(year, month) ==
    Only({ IF ~ValidDate(y, m, 1) \/ (y = 9999 /\ m = 12) THEN 22
           ELSE Only({ WorkdayLoop(first_day, last_day, 0)
                       : first_day \in {toordinal(y, m, 1)},
                         last_day \in {IF m < 12 THEN toordinal(y, m + 1, 1) - 1
                                       ELSE toordinal(y, 12, 31)} })
           : y \in {year}, m \in {month} })

calculate_unpaid_leave_deduction(base_salary, unpaid_days, year, month) ==
    Only({ IF days <= 0 THEN 0
           ELSE Only({ Only({ FTrunc(FMul(daily_wage, FInt(days)))
                              : daily_wage \in {FDivInt(FInt(base_salary), total_workdays)} })
                       : total_workdays \in {get_workdays_in_month(year, month)} })
           : days \in {unpaid_days} })

\* late_hours is a float
calculate_lateness_deduction(base_salary, late_hours, year, month) ==
    Only({ IF FCmp(hours, FZero) <= 0 THEN 0
           ELSE Only({ Only({ FTrunc(FMul(hourly_wage, hours))
                              : hourly_wage \in
                                    {FDivInt(FInt(base_salary), total_workdays * 8)} })
                       : total_workdays \in {get_workdays_in_month(year, month)} })
           : hours \in {late_hours} })

\* round2 for a float a with a fraction: k is the whole part of n = 100 * a
\* in units of 2^a.e, rounded to the nearest integer, ties to even
Round2Up(a, n, k) ==
    Only({ FDivInt(FRound(IF c > 0 \/ (c = 0 /\ Limb(k, 1) % 2 = 1)
                          THEN BigAdd(k, <<1>>) ELSE k, 0, FALSE), 100)
           : c \in {BigCmp(BigSub(n, BigShl(k, -a.e)), BigShl(<<1>>, -a.e - 1))} })

\* round(x, 2): the float nearest to x rounded to two decimals, where the
\* decimal rounding is of the exact binary value, ties to even
round2(x) ==
    Only({ IF a.m = <<>> \/ a.e >= 0 THEN a
           ELSE Only({ Only({ Round2Up(a, n, k) : k \in {BigShr(n, -a.e)} })
                       : n \in {BigMulSmall(a.m, 100)} })
           : a \in {x} })

(* An attendance row: status is one of                                     *)
(*   "normal" (정상) "late" (지각) "early_leave" (조퇴) "annual_leave" (연차)*)
(*   "absent" (결근) "paid_leave" (유급휴가) "unpaid_leave" (무급휴가);       *)
(* clock_in is [kind |-> "none"] (NULL or ''), [kind |-> "bad"] (a string  *)
(* strptime('%H:%M:%S') rejects) or [kind |-> "time", h, m, s];            *)
(* actual_hours is in quarter hours (actual_q / 4, exact as a float).      *)
(* The table carries the status and actual_hours columns.                  *)
\* mutant: the threshold one minute low
LateRecord_mut(record, late_hours) ==
    IF record.clock_in.kind # "time" THEN late_hours
    ELSE LET late_minutes == record.clock_in.h * 60 + record.clock_in.m - 9 * 60
         IN  IF late_minutes >= 29
             THEN FAdd(late_hours, FDivInt(FInt(late_minutes), 60))
             ELSE late_hours
\* the loop body with the except clause giving up the hours summed so far
LateRecord_abort(record, late_hours) ==
    IF record.clock_in.kind # "time" THEN FZero
    ELSE LET late_minutes == record.clock_in.h * 60 + record.clock_in.m - 9 * 60
         IN  IF late_minutes >= 30
             THEN FAdd(late_hours, FDivInt(FInt(late_minutes), 60))
             ELSE late_hours

\* the body of the loop over the records tagged late
LateRecord(record, late_hours) ==
    IF record.clock_in.kind = "none" THEN late_hours
    ELSE IF record.clock_in.kind = "bad" THEN late_hours
    ELSE LET t == record.clock_in
             after_standard   == t.h > 9 \/ (t.h = 9 /\ (t.m > 0 \/ t.s > 0))
             clock_in_minutes == t.h * 60 + t.m
             standard_minutes == 9 * 60 + 0
             late_minutes     == clock_in_minutes - standard_minutes
         IN  IF after_standard /\ late_minutes >= 30
             THEN FAdd(late_hours, FDivInt(FInt(late_minutes), 60))
             ELSE late_hours

\* the body of the loop over the records tagged early leave
EarlyLeaveRecord(record, late_hours) ==
    IF record.actual_q < 8 * 4
    THEN FAdd(late_hours, FSub(FInt(8), FDivInt(FInt(record.actual_q), 4)))
    ELSE late_hours

RECURSIVE LateLoop(_, _, _)
LateLoop(rows, i, late_hours) ==
    IF i > Len(rows) THEN late_hours
    ELSE Only({ LateLoop(rows, i + 1, h)
                : h \in {IF rows[i].status = "late" THEN LateRecord(rows[i], late_hours)
                         ELSE late_hours} })

RECURSIVE EarlyLeaveLoop(_, _, _)
EarlyLeaveLoop(rows, i, late_hours) ==
    IF i > Len(rows) THEN late_hours
    ELSE Only({ EarlyLeaveLoop(rows, i + 1, h)
                : h \in {IF rows[i].status = "early_leave"
                         THEN EarlyLeaveRecord(rows[i], late_hours)
                         ELSE late_hours} })

NoDeductions ==
    [unpaid_days |-> 0, unpaid_deduction |-> 0, late_hours |-> FZero,
     lateness_deduction |-> 0]

(* A pay month string, split at '-': a sequence of parts, each            *)
(* [num |-> TRUE, val |-> n] (int() accepts it) or [num |-> FALSE].        *)
\* year, month = map(int, pay_month.split('-'))
ParsePayMonth(pay_month) ==
    IF Len(pay_month) = 2 /\ pay_month[1].num /\ pay_month[2].num
    THEN [ok |-> TRUE, year |-> pay_month[1].val, month |-> pay_month[2].val]
    ELSE [ok |-> FALSE, year |-> 0, month |-> 0]

\* rows in date order, latest first (order('date', desc=True)); the table
\* holds one row per employee and date
RECURSIVE SortDesc(_)
SortDesc(rows) ==
    Only({ IF rs = {} THEN <<>>
           ELSE Only({ <<top>> \o SortDesc(rs \ {top})
                       : top \in {CHOOSE r \in rs : \A o \in rs :
                                     toordinal(o.date.y, o.date.m, o.date.d)
                                         <= toordinal(r.date.y, r.date.m, r.date.d)} })
           : rs \in {rows} })

\* start_date and end_date are ordinals
get_attendance(table, employee_id, start_date, end_date) ==
    Only({ SortDesc({r \in table :
                        /\ r.employee_id = employee_id
                        /\ toordinal(r.date.y, r.date.m, r.date.d) >= first
                        /\ toordinal(r.date.y, r.date.m, r.date.d) <= last})
           : first \in {start_date}, last \in {end_date} })

\* get_employee_deductions once the pay month p is parsed
MonthDeductions(table, employee_id, p) ==
    Only({ IF attendance_df = <<>> THEN NoDeductions
           ELSE [unpaid_days |->
                     Cardinality({i \in 1..Len(attendance_df) :
                                     attendance_df[i].status = "unpaid_leave"}),
                 late_hours |->
                     round2(EarlyLeaveLoop(attendance_df, 1,
                                           LateLoop(attendance_df, 1, FZero))),
                 unpaid_deduction |-> 0, lateness_deduction |-> 0]
           : attendance_df \in
                 {get_attendance(table, employee_id,
                                 toordinal(p.year, p.month, 1),
                                 IF p.month < 12 THEN toordinal(p.year, p.month + 1, 1) - 1
                                 ELSE toordinal(p.year, 12, 31))} })

\* table is the attendance table the supabase client reads
get_employee_deductions(table, employee_id, pay_month) ==
    Only({ IF ~p.ok \/ ~ValidDate(p.year, p.month, 1) THEN NoDeductions
           ELSE MonthDeductions(table, employee_id, p)
           : p \in {ParsePayMonth(pay_month)} })

(***************************************************************************)
(* Payroll assembly (src/app.py 37-51, 458-569)                            *)
(***************************************************************************)
PENSION_LIMITS_min == 400000
PENSION_LIMITS_max == 6370000

\* INSURANCE_RATES, as the floats the literals denote
INSURANCE_RATES ==
    [national_pension     |-> FDec(45, 1000),
     health_insurance     |-> FDec(3545, 100000),
     long_term_care       |-> FDec(1295, 10000),
     employment_insurance |-> FDec(9, 1000)]

AllowanceKinds ==
    {"performance_bonus", "attendance_allowance", "meal_allowance",
     "holiday_allowance", "position_allowance", "special_duty_allowance",
     "overtime_allowance", "skill_allowance", "annual_leave_allowance",
     "other_allowance"}

\* the allowances used when the caller passes None
DefaultAllowances ==
    [k \in AllowanceKinds |-> IF k = "meal_allowance" THEN 130000 ELSE 0]

\* sum(d.values()) of a dict d
RECURSIVE SumValues(_, _)
SumValues(d, keys) ==
    Only({ IF ks = {} THEN 0
           ELSE Only({ d[k] + SumValues(d, ks \ {k}) : k \in {CHOOSE x \in ks : TRUE} })
           : ks \in {keys} })

\* d.get(k, 0)
Get0(d, k) == IF k \in DOMAIN d THEN d[k] ELSE 0

\* min(max(adjusted_salary, PENSION_LIMITS['min']), PENSION_LIMITS['max'])
PensionBase(adjusted_salary) ==
    Min(Max(adjusted_salary, PENSION_LIMITS_min), PENSION_LIMITS_max)

\* int(amount * rate)
Withholding(amount, rate) == FTrunc(FMul(FInt(amount), rate))

\* mutant: the lateness deduction not taken off the salary
AdjustedSalary_mut(gross_pay, unpaid_deduction, lateness_deduction) ==
    Max(0, gross_pay - unpaid_deduction)

\* gross_pay - unpaid_deduction - lateness_deduction, then max(0, .)
AdjustedSalary(gross_pay, unpaid_deduction, lateness_deduction) ==
    Max(0, gross_pay - unpaid_deduction - lateness_deduction)

\* mutant: the lateness deduction left out of the total
TotalDeductions_mut(national_pension, health_insurance, long_term_care, employment_insurance, income_tax, resident_tax, unpaid_deduction, lateness_deduction) ==
    national_pension + health_insurance + long_term_care
        + employment_insurance + income_tax + resident_tax + unpaid_deduction

\* mutant: the six labeled withholdings alone
TotalDeductions_six(national_pension, health_insurance, long_term_care, employment_insurance, income_tax, resident_tax, unpaid_deduction, lateness_deduction) ==
    national_pension + health_insurance + long_term_care
        + employment_insurance + income_tax + resident_tax

TotalDeductions(national_pension, health_insurance, long_term_care, employment_insurance, income_tax, resident_tax, unpaid_deduction, lateness_deduction) ==
    national_pension + health_insurance + long_term_care
        + employment_insurance + income_tax + resident_tax
        + unpaid_deduction + lateness_deduction

\* mutant: a net pay clamped at zero
NetPay_mut(gross_pay, total_deductions) == Max(0, gross_pay - total_deductions)

NetPay(gross_pay, total_deductions) == gross_pay - total_deductions

\* mutant: only a negative salary short-circuits
ShortCircuit_mut(base_salary) == base_salary < 0

\* if base_salary <= 0: return None
ShortCircuit(base_salary) == base_salary <= 0

\* what calculate_comprehensive_payroll returns: [returned |-> "None"] or
\* the result dict with returned |-> "dict".  The function raises nothing:
\* its except branch shows the error (error |-> TRUE) and returns None.  supabase is TRUE for a client
\* and FALSE for None; allowances is [none |-> TRUE] for None and
\* [none |-> FALSE, dict |-> d] for a dict d; table is the attendance table.
\* calls is the set of the collaborators the call went through.  The
\* locals are listed from the last assigned to the first.
calculate_comprehensive_payroll(employee_data, pay_month, supabase, table, allowances) ==
    LET base_salary  == employee_data.base_salary
        family_count == employee_data.family_count
        employee_id  == employee_data.id
        p            == ParsePayMonth(pay_month)
    IN
    IF ShortCircuit(base_salary) THEN [returned |-> "None", calls |-> {}, error |-> FALSE]
    ELSE IF ~p.ok
    THEN [returned |-> "None",
          calls |-> IF supabase THEN {"get_employee_deductions"} ELSE {},
          error |-> TRUE]
    ELSE
    Only({ Only({ Only({ Only({ Only({ Only({
        [returned               |-> "dict",
         calls                  |-> (IF supabase THEN {"get_employee_deductions"} ELSE {})
                                    \cup {"insurance", "calculate_correct_taxes_for_payroll"},
         employee_id            |-> employee_id,
         pay_month              |-> pay_month,
         base_salary            |-> base_salary,
         performance_bonus      |-> Get0(allow, "performance_bonus"),
         attendance_allowance   |-> Get0(allow, "attendance_allowance"),
         meal_allowance         |-> Get0(allow, "meal_allowance"),
         holiday_allowance      |-> Get0(allow, "holiday_allowance"),
         position_allowance     |-> Get0(allow, "position_allowance"),
         special_duty_allowance |-> Get0(allow, "special_duty_allowance"),
         overtime_allowance     |-> Get0(allow, "overtime_allowance"),
         skill_allowance        |-> Get0(allow, "skill_allowance"),
         annual_leave_allowance |-> Get0(allow, "annual_leave_allowance"),
         other_allowance        |-> Get0(allow, "other_allowance"),
         adjusted_salary        |-> adjusted_salary,
         unpaid_days            |-> attendance_deductions.unpaid_days,
         unpaid_deduction       |-> unpaid_deduction,
         late_hours             |-> attendance_deductions.late_hours,
         lateness_deduction     |-> lateness_deduction,
         national_pension       |-> national_pension,
         health_insurance       |-> health_insurance,
         long_term_care         |-> long_term_care,
         employment_insurance   |-> employment_insurance,
         income_tax             |-> tax_result.income_tax,
         resident_tax           |-> tax_result.resident_tax,
         total_deductions       |-> total_deductions,
         net_pay                |-> NetPay(gross_pay, total_deductions),
         is_paid                |-> FALSE,
         pay_date               |-> "None",
         taxable_income         |-> tax_result.taxable_income,
         salary_income_deduction |-> tax_result.salary_income_deduction,
         personal_deductions    |-> tax_result.personal_deductions,
         child_tax_credit       |-> tax_result.child_tax_credit,
         annual_income_tax_before_credit |-> tax_result.annual_income_tax_before_credit,
         annual_income_tax_after_credit  |-> tax_result.annual_income_tax_after_credit]
        : total_deductions \in
              {TotalDeductions(national_pension, health_insurance, long_term_care,
                               employment_insurance, tax_result.income_tax,
                               tax_result.resident_tax, unpaid_deduction,
                               lateness_deduction)} })
        : long_term_care \in
              {Withholding(health_insurance, INSURANCE_RATES.long_term_care)} })
        : national_pension \in
              {Withholding(PensionBase(adjusted_salary), INSURANCE_RATES.national_pension)},
          health_insurance \in
              {Withholding(adjusted_salary, INSURANCE_RATES.health_insurance)},
          employment_insurance \in
              {Withholding(adjusted_salary, INSURANCE_RATES.employment_insurance)},
          tax_result \in
              {calculate_correct_taxes_for_payroll(adjusted_salary, family_count)} })
        : adjusted_salary \in
              {AdjustedSalary(gross_pay, unpaid_deduction, lateness_deduction)} })
        : unpaid_deduction \in
              {calculate_unpaid_leave_deduction(
                   base_salary, attendance_deductions.unpaid_days, p.year, p.month)},
          lateness_deduction \in
              {calculate_lateness_deduction(
                   base_salary, attendance_deductions.late_hours, p.year, p.month)},
          gross_pay \in {base_salary + SumValues(allow, DOMAIN allow)} })
        : allow \in {IF allowances.none THEN DefaultAllowances ELSE allowances.dict},
          attendance_deductions \in
              {IF supabase THEN get_employee_deductions(table, employee_id, pay_month)
               ELSE NoDeductions} })

(***************************************************************************)
(* The payroll page: an employee row, the pay month typed in, the          *)
(* allowances entered, the attendance table, and the result of the last    *)
(* calculation.  A Streamlit rerun after any change of the inputs drops    *)
(* the previous result, which is a local of the button handler.            *)
(***************************************************************************)
VARIABLES employee_data, pay_month, allowances, supabase, attendance, result,
          call, prev_call, payroll, sessions, employees

payroll_vars == <<employee_data, pay_month, allowances, supabase, attendance, result>>

\* payroll is the payroll table of the database; sessions holds, for every
\* browser session, how far its call of save_payroll has come; employees is
\* the employees table with its annual-leave columns
store_vars == <<payroll, sessions, employees>>

\* call and prev_call hold the last two evaluations of a calculator that is
\* called on its own (the tax test page, the leave preview)
call_vars == <<call, prev_call>>

NoCall == [fn |-> "none"]

\* the browser sessions that save payrolls
Sessions == {1, 2}

\* no session is inside save_payroll
NoSessions == [s \in Sessions |-> [pc |-> "idle", saves |-> 0]]

\* bounds of the model
MaxRecords == 2

NotCalled == [returned |-> "not called", calls |-> {}]

\* a negative and a zero salary, one under the pension floor, the default, one
\* over the pension ceiling
Salaries == {-100000, 0, 300, 3000000, 7000000}

\* household sizes: the employee alone, and with two dependants
Families == {1, 3}

\* the employees the form produces: every salary for the employee alone,
\* the default salary for every household
Employees ==
    {e \in {[id |-> 1, base_salary |-> b, family_count |-> f] :
                b \in Salaries, f \in Families} :
        e.family_count = 1 \/ e.base_salary = 3000000}

Num(n) == [num |-> TRUE, val |-> n]

\* a part of the pay month that int() rejects
NotNum == [num |-> FALSE]

\* "2025-01" and "2025-02"; "2025-13"; "2025-xx"; "2025-01-15"
PayMonths ==
    { <<Num(2025), Num(1)>>, <<Num(2025), Num(2)>>, <<Num(2025), Num(13)>>,
      <<Num(2025), NotNum>>, <<Num(2025), Num(1), Num(15)>> }

Dict(d) == [none |-> FALSE, dict |-> d]

AllowanceInputs ==
    { [none |-> TRUE],
      Dict([k \in AllowanceKinds |-> 0]),
      Dict([k \in AllowanceKinds |->
              IF k = "meal_allowance" THEN 130000
              ELSE IF k = "performance_bonus" THEN 500000
              ELSE IF k = "overtime_allowance" THEN 121000 ELSE 0]),
      Dict([k \in AllowanceKinds \ {"meal_allowance"} |->
              IF k = "position_allowance" THEN 200000 ELSE 0]),
      Dict([k \in AllowanceKinds \cup {"transport_allowance"} |->
              IF k = "transport_allowance" THEN 50000 ELSE 0]),
      Dict([k \in AllowanceKinds |->
              IF k = "other_allowance" THEN -500000 ELSE 0]) }

Time(h, m) == [kind |-> "time", h |-> h, m |-> m, s |-> 0]

Row(day, status, clock_in, actual_q) ==
    [employee_id |-> 1, date |-> [y |-> 2025, m |-> 1, d |-> day],
     status |-> status, clock_in |-> clock_in, actual_q |-> actual_q]

\* the rows an attendance form can add in January 2025
AttendanceInputs ==
    { Row(6, "late", Time(9, 29), 30),
      Row(7, "late", Time(9, 30), 30),
      Row(8, "late", Time(10, 7), 28),
      Row(9, "late", [kind |-> "none"], 32),
      Row(10, "early_leave", Time(9, 0), 22),
      Row(13, "unpaid_leave", [kind |-> "none"], 0) }

PayrollInit ==
    /\ employee_data = [id |-> 1, base_salary |-> 3000000, family_count |-> 1]
    /\ pay_month = <<Num(2025), Num(1)>>
    /\ allowances = [none |-> TRUE]
    /\ supabase \in BOOLEAN
    /\ attendance = {}
    /\ result = NotCalled
    /\ payroll = {}
    /\ sessions = NoSessions
    /\ employees = {}
    /\ call = NoCall
    /\ prev_call = NoCall

\* the employee form: update_employee with a new salary and family count
UpdateEmployee ==
    \E e \in Employees :
        /\ employee_data' = e
        /\ result' = NotCalled
        /\ UNCHANGED <<pay_month, allowances, supabase, attendance>>
        /\ UNCHANGED <<call_vars, store_vars>>

EnterPayMonth ==
    \E pm \in PayMonths :
        /\ pay_month' = pm
        /\ result' = NotCalled
        /\ UNCHANGED <<employee_data, allowances, supabase, attendance>>
        /\ UNCHANGED <<call_vars, store_vars>>

EnterAllowances ==
    \E a \in AllowanceInputs :
        /\ allowances' = a
        /\ result' = NotCalled
        /\ UNCHANGED <<employee_data, pay_month, supabase, attendance>>
        /\ UNCHANGED <<call_vars, store_vars>>

\* add_attendance: a row for a date that has none yet
AddAttendance ==
    \E r \in AttendanceInputs :
        /\ supabase
        /\ Cardinality(attendance) < MaxRecords
        /\ \A o \in attendance : o.date # r.date
        /\ attendance' = attendance \cup {r}
        /\ result' = NotCalled
        /\ UNCHANGED <<employee_data, pay_month, allowances, supabase>>
        /\ UNCHANGED <<call_vars, store_vars>>

\* the attendance tables add_attendance can produce
AttendanceTables ==
    {t \in SUBSET AttendanceInputs :
        /\ Cardinality(t) <= MaxRecords
        /\ \A r, o \in t : r.date = o.date => r = o}

\* calculate_comprehensive_payroll over the inputs of the model, with the
\* database client; without one no attendance is read
PayrollTable ==
    [e \in Employees |-> [pm \in PayMonths |-> [a \in AllowanceInputs |->
        [t \in AttendanceTables |->
            calculate_comprehensive_payroll(e, pm, TRUE, t, a)]]]]

PayrollTableOffline ==
    [e \in Employees |-> [pm \in PayMonths |-> [a \in AllowanceInputs |->
        calculate_comprehensive_payroll(e, pm, FALSE, {}, a)]]]

\* mutant: a default written into the dict of the caller
AllowancesAfter_mut(passed) ==
    IF passed.none \/ "meal_allowance" \in DOMAIN passed.dict THEN passed
    ELSE Dict([k \in DOMAIN passed.dict \cup {"meal_allowance"} |->
                  IF k = "meal_allowance" THEN 130000 ELSE passed.dict[k]])

\* the allowances object of the caller after the call: the function rebinds
\* its local name for None and only reads a dict
AllowancesAfter(passed) == passed

\* the calculate button
CalculatePayroll ==
    /\ result' = IF supabase
                 THEN PayrollTable[employee_data][pay_month][allowances][attendance]
                 ELSE PayrollTableOffline[employee_data][pay_month][allowances]
    /\ allowances' = AllowancesAfter(allowances)
    /\ UNCHANGED <<employee_data, pay_month, supabase, attendance>>
    /\ UNCHANGED <<call_vars, store_vars>>

PayrollNext ==
    \/ UpdateEmployee
    \/ EnterPayMonth
    \/ EnterAllowances
    \/ AddAttendance
    \/ CalculatePayroll

vars == <<payroll_vars, call_vars, store_vars>>

Init == PayrollInit

Next == PayrollNext

Spec == Init /\ [][Next]_vars

(***************************************************************************)
(* Properties of the payroll result                                        *)
(***************************************************************************)
Computed == result.returned = "dict"

\* the allowance dict the calculation worked with
PassedAllowances == IF allowances.none THEN DefaultAllowances ELSE allowances.dict

\* base salary plus every amount of the allowance dict
GrossPay ==
    employee_data.base_salary + SumValues(PassedAllowances, DOMAIN PassedAllowances)

\* C1: in every payroll result total_deductions is the sum of the four
\* insurance withholdings, the income tax, the resident tax, the unpaid
\* deduction and the lateness deduction
C1_TotalDeductions ==
    Computed =>
        result.total_deductions =
            result.national_pension + result.health_insurance
                + result.long_term_care + result.employment_insurance
                + result.income_tax + result.resident_tax
                + result.unpaid_deduction + result.lateness_deduction

C1_Witness ==
    /\ Computed
    /\ result.unpaid_deduction > 0
    /\ result.lateness_deduction > 0
    /\ result.income_tax > 0

\* C2: in every payroll result net_pay = gross_pay - total_deductions, with
\* gross_pay the base salary plus the sum of all allowance amounts
C2_NetPay == Computed => result.net_pay = GrossPay - result.total_deductions

C2_Witness ==
    /\ Computed
    /\ GrossPay > employee_data.base_salary
    /\ result.total_deductions > 0

C4_AdjustedSalaryIsTheBase ==
    Computed =>
        LET adj == result.adjusted_salary
            hi  == FTrunc(FMul(FInt(adj), INSURANCE_RATES.health_insurance))
        IN  /\ adj = Max(0, GrossPay - result.unpaid_deduction
                                - result.lateness_deduction)
            /\ result.national_pension =
                   FTrunc(FMul(FInt(Min(Max(adj, PENSION_LIMITS_min),
                                        PENSION_LIMITS_max)),
                               INSURANCE_RATES.national_pension))
            /\ result.health_insurance = hi
            /\ result.long_term_care =
                   FTrunc(FMul(FInt(hi), INSURANCE_RATES.long_term_care))
            /\ result.employment_insurance =
                   FTrunc(FMul(FInt(adj), INSURANCE_RATES.employment_insurance))
            /\ result.income_tax =
                   calculate_correct_taxes_for_payroll(
                       adj, employee_data.family_count).income_tax

C4_Witness ==
    /\ Computed
    /\ result.unpaid_deduction > 0
    /\ result.lateness_deduction > 0
    /\ result.adjusted_salary < GrossPay
    /\ result.adjusted_salary # employee_data.base_salary

\* C8: the golden scenario: base salary 3,000,000, household 1, every
\* allowance 0, no attendance anomaly gives no attendance deduction,
\* adjusted salary 3,000,000, pension 135,000, health 106,350, long-term
\* care 13,772, employment insurance 27,000, income tax 193,125, resident
\* tax 19,312, taxable income 23,850,000
C8_GoldenScenario ==
    ( /\ Computed
      /\ employee_data.base_salary = 3000000
      /\ employee_data.family_count = 1
      /\ allowances = Dict([k \in AllowanceKinds |-> 0])
      /\ \A r \in attendance :
             r.status \notin {"late", "early_leave", "unpaid_leave"} )
        => /\ result.unpaid_deduction = 0
           /\ result.lateness_deduction = 0
           /\ result.adjusted_salary = 3000000
           /\ result.national_pension = 135000
           /\ result.health_insurance = 106350
           /\ result.long_term_care = 13772
           /\ result.employment_insurance = 27000
           /\ result.income_tax = 193125
           /\ result.resident_tax = 19312
           /\ result.taxable_income = 23850000

\* the rows of the attendance table that fall in the pay month
MonthRows ==
    LET p == ParsePayMonth(pay_month)
    IN  {r \in attendance : r.date.y = p.year /\ r.date.m = p.month}

MinutesLate(r) == r.clock_in.h * 60 + r.clock_in.m - 9 * 60

Late29 == {r \in MonthRows : r.status = "late" /\ r.clock_in.kind = "time"
                                /\ MinutesLate(r) = 29}

Late30 == {r \in MonthRows : r.status = "late" /\ r.clock_in.kind = "time"
                                /\ MinutesLate(r) = 30}

\* the result came from the attendance table
LooksUpAttendance == Computed /\ supabase

Workdays ==
    LET p == ParsePayMonth(pay_month) IN get_workdays_in_month(p.year, p.month)

\* C10 (as amended): a late row clocked in 29 minutes after 09:00 adds
\* nothing to late_hours or to the lateness deduction; a row clocked in 30
\* minutes after 09:00, alone in its month, gives late_hours 0.5 and the
\* lateness deduction floor(base_salary / (workdays * 8) * 0.5), which is
\* positive when base_salary >= 16 * workdays
C10_LatenessThreshold ==
    LooksUpAttendance =>
        /\ \A r \in Late29 :
               LET without == get_employee_deductions(
                                  attendance \ {r}, employee_data.id, pay_month)
               IN  /\ result.late_hours = without.late_hours
                   /\ result.lateness_deduction =
                          calculate_lateness_deduction(
                              employee_data.base_salary, without.late_hours,
                              ParsePayMonth(pay_month).year,
                              ParsePayMonth(pay_month).month)
        /\ (Late29 # {} /\ Cardinality(MonthRows) = 1)
               => (result.late_hours = FZero /\ result.lateness_deduction = 0)
        /\ (Late30 # {} /\ Cardinality(MonthRows) = 1)
               => /\ result.late_hours = FDec(1, 2)
                  /\ result.lateness_deduction =
                         employee_data.base_salary \div (Workdays * 16)
                  /\ (employee_data.base_salary >= 16 * Workdays
                          => result.lateness_deduction > 0)

C10_Witness ==
    /\ LooksUpAttendance
    /\ Late30 # {}
    /\ Cardinality(MonthRows) = 1
    /\ result.lateness_deduction > 0

C10_Witness29 ==
    /\ LooksUpAttendance
    /\ Late29 # {}
    /\ Cardinality(MonthRows) = 2
    /\ result.lateness_deduction > 0

\* C10 as stated: the 30-minute row always gives a positive deduction
C10_PositiveDeduction ==
    (LooksUpAttendance /\ Late30 # {} /\ Cardinality(MonthRows) = 1)
        => /\ result.late_hours = FDec(1, 2)
           /\ result.lateness_deduction =
                  employee_data.base_salary \div (Workdays * 16)
           /\ result.lateness_deduction > 0

(***************************************************************************)
(* Annual leave accrual (src/app.py 366-384)                               *)
(***************************************************************************)
\* int(x // 2) of a float x >= 0
FloorDiv2(x) == FTrunc(x) \div 2

\* mutant: the months completed, a month counting from its day of hire
WorkMonths_mut(hire_date, current_date) ==
    (current_date.y - hire_date.y) * 12 + (current_date.m - hire_date.m)
        - (IF current_date.d < hire_date.d THEN 1 ELSE 0)
\* mutant: the difference of the months within the calendar year
WorkMonths_sameYear(hire_date, current_date) == current_date.m - hire_date.m

\* work_months of the first year: the difference of the calendar months
WorkMonths(hire_date, current_date) ==
    (current_date.y - hire_date.y) * 12 + (current_date.m - hire_date.m)

\* mutant: the additional leave without its cap
AdditionalLeave_mut(additional_years) == additional_years

\* min(additional_years, 10)
AdditionalLeave(additional_years) == Min(additional_years, 10)

\* dates are [y, m, d]; work_period.days / 365.25 is the correctly rounded
\* quotient, the same float as (4 * days) / 1461
calculate_annual_leave(hire_date, current_date) ==
    Only({ Only({
        IF days < 0 \/ FCmp(work_years, FInt(1)) < 0
        THEN Max(0, WorkMonths(hire_date, current_date))
        ELSE Only({ 15 + AdditionalLeave(additional_years)
                    : additional_years \in {FloorDiv2(FSub(work_years, FInt(1)))} })
        : work_years \in {IF days < 0 THEN FZero ELSE FDivInt(FInt(4 * days), 1461)} })
        : days \in {toordinal(current_date.y, current_date.m, current_date.d)
                        - toordinal(hire_date.y, hire_date.m, hire_date.d)} })

(***************************************************************************)
(* Severance pay (src/app.py 407-452)                                      *)
(***************************************************************************)
\* sum(recent_salaries) from element i on
RECURSIVE SumFrom(_, _)
SumFrom(recent_salaries, i) ==
    IF i > Len(recent_salaries) THEN 0
    ELSE recent_salaries[i] + SumFrom(recent_salaries, i + 1)

\* sum(recent_salaries) / len(recent_salaries), or 0 for an empty list
AverageMonthlyWage(recent_salaries) ==
    IF Len(recent_salaries) > 0
    THEN FDivInt(FInt(SumFrom(recent_salaries, 1)), Len(recent_salaries))
    ELSE FZero

\* mutant: the years of service taken with their fraction
SeverancePay_mut(work_years, daily_average_wage) ==
    FMul(FMul(work_years, FInt(30)), daily_average_wage)

\* int(work_years) * 30 * daily_average_wage
SeverancePay(work_years, daily_average_wage) ==
    FMul(FInt(FTrunc(work_years) * 30), daily_average_wage)

\* dates are [y, m, d], recent_salaries a sequence of ints; message is
\* "ineligible" for the under-one-year text and "paid" for the text with the
\* amount.  For a resignation before the hire date work_days is negative
\* and work_years holds the magnitude of the quotient.
calculate_severance_pay(hire_date, resignation_date, recent_salaries) ==
    Only({ Only({
        IF work_days < 0 \/ FCmp(work_years, FInt(1)) < 0
        THEN [work_years |-> work_years, work_days |-> work_days,
              average_wage |-> FZero, severance_pay |-> FZero,
              message |-> "ineligible"]
        ELSE Only({ Only({
                 [work_years |-> work_years, work_days |-> work_days,
                  average_monthly_wage |-> average_monthly_wage,
                  daily_average_wage |-> daily_average_wage,
                  severance_pay |-> SeverancePay(work_years, daily_average_wage),
                  message |-> "paid"]
                 : daily_average_wage \in {FDivInt(average_monthly_wage, 30)} })
                 : average_monthly_wage \in {AverageMonthlyWage(recent_salaries)} })
        : work_years \in {FDivInt(FInt(4 * Max(work_days, -work_days)), 1461)} })
        : work_days \in
              {toordinal(resignation_date.y, resignation_date.m, resignation_date.d)
                   - toordinal(hire_date.y, hire_date.m, hire_date.d)} })

(***************************************************************************)
(* The calculators called on their own                                     *)
(***************************************************************************)
MaxHousehold == 3
MaxTenure == 3
MaxService == 2

\* monthly salaries around the tier limits of the salary income deduction
TaxSalaries ==
    {0, 7000, 416666, 416667, 1250000, 1250001, 2000000, 3000000, 3750000,
     3750001, 5000000, 8000000, 8333333, 8333334, 20000000, 100000000}

\* the payroll page left as it starts
PayrollIdle ==
    /\ employee_data = [id |-> 1, base_salary |-> 3000000, family_count |-> 1]
    /\ pay_month = <<Num(2025), Num(1)>>
    /\ allowances = [none |-> TRUE]
    /\ supabase = FALSE
    /\ attendance = {}
    /\ result = NotCalled
    /\ payroll = {}
    /\ sessions = NoSessions
    /\ employees = {}

CallInit == PayrollIdle /\ call = NoCall /\ prev_call = NoCall

\* calculate_correct_taxes_for_payroll over the inputs of the model
TaxTable ==
    [s \in TaxSalaries, f \in 1..MaxHousehold |->
        calculate_correct_taxes_for_payroll(s, f)]

\* the tax test page: calculate_correct_taxes_for_payroll(s, f)
TaxCall ==
    \E s \in TaxSalaries, f \in 1..MaxHousehold :
        /\ prev_call' = call
        /\ call' = [fn |-> "taxes", monthly_salary |-> s, family_count |-> f,
                    value |-> TaxTable[s, f]]
        /\ UNCHANGED <<payroll_vars, store_vars>>

TaxNext == TaxCall

SpecTax == CallInit /\ [][TaxNext]_vars

FiniteLimits == {tax_brackets[i].limit : i \in {j \in 1..Len(tax_brackets) : ~tax_brackets[j].inf}}

\* taxable incomes at, just below and just above every bracket limit
BracketInputs == {0, 1} \cup {l + d : l \in FiniteLimits, d \in {-1, 0, 1}}

\* calculate_correct_progressive_income_tax over the inputs of the model
BracketTable ==
    [t \in BracketInputs |-> calculate_correct_progressive_income_tax(t)]

\* calculate_correct_progressive_income_tax(t)
BracketCall ==
    \E t \in BracketInputs :
        /\ prev_call' = call
        /\ call' = [fn |-> "bracket", taxable_income |-> t,
                    value |-> BracketTable[t]]
        /\ UNCHANGED <<payroll_vars, store_vars>>

BracketNext == BracketCall

SpecBracket == CallInit /\ [][BracketNext]_vars

HireDates ==
    {[y |-> y, m |-> md[1], d |-> md[2]] :
        y \in 2018..2022, md \in {<<1, 1>>, <<3, 1>>, <<2, 28>>, <<7, 15>>, <<12, 31>>}}

\* long tenures, in years: around the cap of the additional leave
LongTenures == {20, 21, 25, 30}

\* the day of hire a year earlier; the anniversaries of a hire date up to
\* MaxTenure years and after the long tenures, and the day after each; the
\* first day of the next month and of the fifth month after, within the year
EvaluationDates(h) ==
    {c \in {[y |-> h.y + k, m |-> h.m, d |-> h.d + e] :
                k \in (-1..MaxTenure) \cup LongTenures, e \in {0, 1}}
            \cup {[y |-> h.y, m |-> h.m + j, d |-> 1] : j \in {1, 5}} :
        ValidDate(c.y, c.m, c.d)}

\* calculate_annual_leave over the inputs of the model
LeaveTable ==
    [h \in HireDates |-> [c \in EvaluationDates(h) |-> calculate_annual_leave(h, c)]]

\* update_employee_annual_leave: calculate_annual_leave(h, c)
LeaveCall ==
    \E h \in HireDates :
        \E c \in EvaluationDates(h) :
            /\ call' = [fn |-> "leave", hire_date |-> h, current_date |-> c,
                        value |-> LeaveTable[h][c]]
            /\ UNCHANGED prev_call
            /\ UNCHANGED <<payroll_vars, store_vars>>

LeaveNext == LeaveCall

SpecLeave == CallInit /\ [][LeaveNext]_vars

\* hire dates of the severance page
SeveranceHireDates == {[y |-> 2019, m |-> 1, d |-> 2], [y |-> 2020, m |-> 1, d |-> 2]}

\* the day before, the day of and the day after each anniversary of the
\* hire date up to MaxService years
ResignationDates(h) ==
    {c \in {[y |-> h.y + k, m |-> h.m, d |-> h.d + e] : k \in 0..MaxService, e \in {-1, 0, 1}} :
        ValidDate(c.y, c.m, c.d)}

\* the last three monthly salaries: constant, constant with a daily wage
\* that is not a whole number, uneven, and none
SalaryLists ==
    { <<3000000, 3000000, 3000000>>, <<4100000, 4100000, 4100000>>,
      <<3000000, 3000001, 3000001>>, <<>> }

\* calculate_severance_pay over the inputs of the model
SeveranceTable ==
    [h \in SeveranceHireDates |->
        [c \in ResignationDates(h) |->
            [r \in SalaryLists |-> calculate_severance_pay(h, c, r)]]]

\* the severance page: calculate_severance_pay(h, c, r)
SeveranceCall ==
    \E h \in SeveranceHireDates :
        \E c \in ResignationDates(h), r \in SalaryLists :
            /\ prev_call' = call
            /\ call' = [fn |-> "severance", hire_date |-> h, resignation_date |-> c,
                        recent_salaries |-> r, value |-> SeveranceTable[h][c][r]]
            /\ UNCHANGED <<payroll_vars, store_vars>>

SeveranceNext == SeveranceCall

SpecSeverance == CallInit /\ [][SeveranceNext]_vars

\* calculate_comprehensive_payroll called on the inputs as they stand:
\* the call keeps the employee data and the allowances it was passed
PayrollCall ==
    /\ prev_call' = call
    /\ call' = [fn |-> "payroll", employee_data |-> employee_data,
                allowances |-> allowances,
                value |-> IF supabase
                          THEN PayrollTable[employee_data][pay_month][allowances][attendance]
                          ELSE PayrollTableOffline[employee_data][pay_month][allowances]]
    /\ allowances' = AllowancesAfter(allowances)
    /\ UNCHANGED <<employee_data, pay_month, supabase, attendance, result>>
    /\ UNCHANGED store_vars

\* any employee, pay month, allowances and attendance table of the model
PayrollCallInit ==
    /\ employee_data \in Employees
    /\ pay_month \in PayMonths
    /\ allowances \in AllowanceInputs
    /\ supabase \in BOOLEAN
    /\ attendance \in (IF supabase THEN AttendanceTables ELSE {{}})
    /\ result = NotCalled
    /\ payroll = {}
    /\ sessions = NoSessions
    /\ employees = {}
    /\ call = NoCall
    /\ prev_call = NoCall

PayrollCallNext == PayrollCall

SpecPayrollCall == PayrollCallInit /\ [][PayrollCallNext]_vars

(***************************************************************************)
(* The payroll table (src/app.py 794-829) and the batch page (1686-1745)   *)
(***************************************************************************)
\* allowed_columns of save_payroll
allowed_columns ==
    {"employee_id", "pay_month", "base_salary", "performance_bonus",
     "attendance_allowance", "meal_allowance", "holiday_allowance",
     "position_allowance", "special_duty_allowance", "overtime_allowance",
     "skill_allowance", "annual_leave_allowance", "other_allowance",
     "adjusted_salary", "unpaid_days", "unpaid_deduction", "late_hours",
     "lateness_deduction", "national_pension", "health_insurance",
     "long_term_care", "employment_insurance", "income_tax", "resident_tax",
     "total_deductions", "net_pay", "is_paid", "pay_date", "created_at", "updated_at"}

\* the rows of the table for an employee and a pay month
Existing(table, employee_id, pm) ==
    {row \in table : row.employee_id = employee_id /\ row.pay_month = pm}

\* update(filtered_payroll_data): the columns given are overwritten
UpdateRow(row, data) ==
    [k \in DOMAIN row \cup DOMAIN data |-> IF k \in DOMAIN data THEN data[k] ELSE row[k]]

\* the id the database gives to an inserted row
NextId(table) ==
    IF table = {} THEN 1
    ELSE 1 + (CHOOSE i \in {row.id : row \in table} : \A row \in table : row.id <= i)

\* the dictionary of the allowed columns
FilterColumns(payroll_data) ==
    [k \in DOMAIN payroll_data \cap allowed_columns |-> payroll_data[k]]

\* the update or the insert, after the select has found rows or none;
\* "now" stands for datetime.now().isoformat()
WritePayroll(table, filtered_payroll_data, found) ==
    IF found
    THEN Only({ (table \ matching)
                    \cup {UpdateRow(row, UpdateRow(filtered_payroll_data,
                                                   [updated_at |-> "now"])) : row \in matching}
                : matching \in {Existing(table, filtered_payroll_data.employee_id,
                                         filtered_payroll_data.pay_month)} })
    ELSE table \cup {UpdateRow(filtered_payroll_data,
                                 [id |-> NextId(table),
                                  created_at |-> "now", updated_at |-> "now"])}

\* the table after save_payroll(supabase, payroll_data) with a client, when
\* nothing else touches the table between its select and its write
save_payroll(table, payroll_data) ==
    Only({ WritePayroll(table, filtered_payroll_data,
                        Existing(table, filtered_payroll_data.employee_id,
                                 filtered_payroll_data.pay_month) # {})
           : filtered_payroll_data \in {FilterColumns(payroll_data)} })

\* the batch page starts with the common allowances at 0
StoreInit ==
    /\ employee_data = [id |-> 1, base_salary |-> 3000000, family_count |-> 1]
    /\ pay_month = <<Num(2025), Num(1)>>
    /\ allowances = Dict([k \in AllowanceKinds |-> 0])
    /\ supabase = TRUE
    /\ attendance = {}
    /\ result = NotCalled
    /\ payroll = {}
    /\ sessions = NoSessions
    /\ employees = {}
    /\ call = NoCall
    /\ prev_call = NoCall

\* the batch button: the payroll of the employee is calculated with the
\* common allowances and, when there is a result, saved
BatchPayroll ==
    /\ supabase
    /\ ~allowances.none /\ DOMAIN allowances.dict = AllowanceKinds
    /\ result' = PayrollTable[employee_data][pay_month][allowances][attendance]
    /\ payroll' = IF result'.returned = "dict" THEN save_payroll(payroll, result')
                  ELSE payroll
    /\ UNCHANGED <<employee_data, pay_month, allowances, supabase, attendance>>
    /\ UNCHANGED <<call_vars, sessions, employees>>

\* the payment workflow of the database marks a stored row as paid
MarkPaid ==
    \E row \in payroll :
        /\ ~row.is_paid
        /\ payroll' = (payroll \ {row})
                          \cup {[row EXCEPT !.is_paid = TRUE, !.pay_date = "paid on"]}
        /\ UNCHANGED <<payroll_vars, call_vars, sessions, employees>>

\* the pay month of the batch page
EnterBatchMonth ==
    \E pm \in PayMonths :
        /\ pay_month' = pm
        /\ result' = NotCalled
        /\ UNCHANGED <<employee_data, allowances, supabase, attendance>>
        /\ UNCHANGED <<call_vars, store_vars>>

StoreNext ==
    \/ EnterBatchMonth
    \/ BatchPayroll
    \/ MarkPaid

SpecStore == StoreInit /\ [][StoreNext]_vars

\* the saves a session makes
MaxSaves == 2

\* the pay months the sessions save
SessionMonths == {<<Num(2025), Num(1)>>, <<Num(2025), Num(2)>>}

\* a session presses the save button: save_payroll filters the columns of
\* the payroll it has calculated
SaveBegin(s) ==
    /\ sessions[s].pc = "idle"
    /\ sessions[s].saves < MaxSaves
    /\ \E pm \in SessionMonths :
           LET payroll_data == PayrollTable[employee_data][pm][allowances][attendance]
           IN  /\ payroll_data.returned = "dict"
               /\ sessions' = [sessions EXCEPT ![s] =
                                  [pc |-> "filtered", saves |-> @.saves + 1,
                                   data |-> FilterColumns(payroll_data)]]
    /\ UNCHANGED <<payroll_vars, call_vars, payroll, employees>>

\* the select of the rows of the employee and the pay month
SaveSelect(s) ==
    /\ sessions[s].pc = "filtered"
    /\ sessions' = [sessions EXCEPT ![s] =
                       [pc |-> "selected", saves |-> @.saves, data |-> @.data,
                        found |-> Existing(payroll, @.data.employee_id,
                                           @.data.pay_month) # {}]]
    /\ UNCHANGED <<payroll_vars, call_vars, payroll, employees>>

\* the update when the select found a row, the insert when it found none
SaveWrite(s) ==
    /\ sessions[s].pc = "selected"
    /\ payroll' = WritePayroll(payroll, sessions[s].data, sessions[s].found)
    /\ sessions' = [sessions EXCEPT ![s] = [pc |-> "idle", saves |-> @.saves]]
    /\ UNCHANGED <<payroll_vars, call_vars, employees>>

SessionsNext == \E s \in Sessions : SaveBegin(s) \/ SaveSelect(s) \/ SaveWrite(s)

SpecSessions == StoreInit /\ [][SessionsNext]_vars

(***************************************************************************)
(* Properties of the tax engine and of the leave accrual                   *)
(***************************************************************************)
BothTaxes == call.fn = "taxes" /\ prev_call.fn = "taxes"

\* C5: for a fixed household the monthly income tax never decreases when
\* the salary increases; for a fixed salary it never increases when the
\* household increases
C5_TaxMonotone ==
    BothTaxes =>
        /\ (prev_call.family_count = call.family_count
                /\ prev_call.monthly_salary <= call.monthly_salary)
               => prev_call.value.income_tax <= call.value.income_tax
        /\ (prev_call.monthly_salary = call.monthly_salary
                /\ prev_call.family_count <= call.family_count)
               => prev_call.value.income_tax >= call.value.income_tax

C5_Witness ==
    /\ BothTaxes
    /\ prev_call.family_count = call.family_count
    /\ prev_call.monthly_salary < call.monthly_salary
    /\ 0 < prev_call.value.income_tax
    /\ prev_call.value.income_tax < call.value.income_tax

C5_WitnessHousehold ==
    /\ BothTaxes
    /\ prev_call.monthly_salary = call.monthly_salary
    /\ prev_call.family_count < call.family_count
    /\ prev_call.value.income_tax > call.value.income_tax

\* income_tax_info of the system information page: the lower end of each
\* displayed bracket and its rate
income_tax_info ==
    << [over |-> 0,         rate |-> FDec(6, 100)],
       [over |-> 14000000,  rate |-> FDec(15, 100)],
       [over |-> 50000000,  rate |-> FDec(24, 100)],
       [over |-> 88000000,  rate |-> FDec(35, 100)],
       [over |-> 150000000, rate |-> FDec(38, 100)],
       [over |-> 300000000, rate |-> FDec(40, 100)] >>

\* the rate the page displays for the unit of taxable income numbered t
DisplayedRate(t) ==
    income_tax_info[Max(1, Cardinality({i \in 1..Len(income_tax_info) :
                                          income_tax_info[i].over < t}))].rate

BracketRate(i) == tax_brackets[i].rate

\* C6: at every finite bracket limit B, the tax at B plus the next
\* bracket's rate on one more currency unit is the tax at B + 1
C6_BracketContinuity ==
    \A i \in 1..(Len(tax_brackets) - 1) :
        ( /\ prev_call.fn = "bracket"
          /\ call.fn = "bracket"
          /\ prev_call.taxable_income = tax_brackets[i].limit
          /\ call.taxable_income = tax_brackets[i].limit + 1 )
            => call.value = FAdd(prev_call.value, FMul(FInt(1), BracketRate(i + 1)))

C6_Witness ==
    /\ prev_call.fn = "bracket"
    /\ call.fn = "bracket"
    /\ prev_call.taxable_income = tax_brackets[7].limit
    /\ call.taxable_income = tax_brackets[7].limit + 1
    /\ FCmp(prev_call.value, call.value) < 0

\* C7: the monthly income tax is floor(annual tax after credit / 12); the
\* monthly resident tax is floor(floor(annual tax after credit * 0.10) / 12),
\* in exact arithmetic on the annual tax the result reports
C7_ResidentTaxIsTenPercent ==
    call.fn = "taxes" =>
        LET whole == FTrunc(call.value.annual_income_tax_after_credit)
        IN  /\ call.value.income_tax = whole \div 12
            /\ call.value.resident_tax = (whole \div 10) \div 12

C7_Witness ==
    /\ call.fn = "taxes"
    /\ call.value.resident_tax > 0
    /\ call.value.child_tax_credit > 0
    /\ call.value.resident_tax * 10 # call.value.income_tax

Anniversary(h, k) == [y |-> h.y + k, m |-> h.m, d |-> h.d]

\* C9: on the first anniversary of the hire date the entitlement is 15, on
\* the third anniversary 16
C9_Anniversaries ==
    call.fn = "leave" =>
        /\ call.current_date = Anniversary(call.hire_date, 1) => call.value = 15
        /\ call.current_date = Anniversary(call.hire_date, 3) => call.value = 16


\* the days from the hire date to the evaluation date of the call
TenureDays ==
    toordinal(call.current_date.y, call.current_date.m, call.current_date.d)
        - toordinal(call.hire_date.y, call.hire_date.m, call.hire_date.d)

\* C18: with tenure_years = days / 365.25 >= 1 the entitlement is
\* 15 + min(10, floor((tenure_years - 1) / 2)), in exact arithmetic on the
\* days; it is 25 from 25 years of tenure on and never more than 25
C18_LeaveAfterFirstYear ==
    (call.fn = "leave" /\ 4 * TenureDays >= 1461) =>
        /\ call.value = 15 + Min(10, (4 * TenureDays - 1461) \div (2 * 1461))
        /\ call.value <= 25
        /\ 4 * TenureDays >= 25 * 1461 => call.value = 25

\* evaluations after 21 years (the cap reached) and after 30 years
C18_Witness ==
    /\ call.fn = "leave"
    /\ call.current_date.y = call.hire_date.y + 30
    /\ 4 * TenureDays >= 25 * 1461
    /\ call.value = 25

C18_WitnessBelowCap ==
    /\ call.fn = "leave"
    /\ 4 * TenureDays >= 3 * 1461
    /\ call.value = 16

\* C19: with tenure_years = days / 365.25 < 1 the entitlement is
\* max(0, (evaluation year - hire year) * 12 + (evaluation month - hire
\* month)); it is 0 on the hire date and for an evaluation before it
C19_LeaveInFirstYear ==
    (call.fn = "leave" /\ 4 * TenureDays < 1461) =>
        /\ call.value = Max(0, (call.current_date.y - call.hire_date.y) * 12
                                  + (call.current_date.m - call.hire_date.m))
        /\ call.current_date = call.hire_date => call.value = 0
        /\ TenureDays < 0 => call.value = 0

\* hired on July 15, evaluated on August 1 of the same year: one month by
\* the calendar
C19_Witness ==
    /\ call.fn = "leave"
    /\ call.hire_date.m = 7 /\ call.hire_date.d = 15
    /\ call.current_date = [y |-> call.hire_date.y, m |-> 8, d |-> 1]
    /\ call.value = 1

C19_WitnessBeforeHire ==
    /\ call.fn = "leave"
    /\ TenureDays < 0
    /\ call.value = 0

(***************************************************************************)
(* Properties of the severance pay                                         *)
(***************************************************************************)
\* the list holds one salary, repeated
ConstantSalary(r) == Len(r) > 0 /\ \A i \in 1..Len(r) : r[i] = r[1]

\* C11: a tenure of exactly 364 days gives severance 0 with the
\* ineligibility message; a tenure of 366 days with a constant monthly
\* salary S gives severance S
C11_SeveranceAtOneYear ==
    call.fn = "severance" =>
        /\ call.value.work_days = 364
               => (call.value.severance_pay = FZero /\ call.value.message = "ineligible")
        /\ (call.value.work_days = 366 /\ ConstantSalary(call.recent_salaries))
               => call.value.severance_pay = FInt(call.recent_salaries[1])

\* the call paid a severance: a year of service or more
SeverancePaid(c) == c.fn = "severance" /\ c.value.message = "paid"

Malformed(pm) ==
    \/ Len(pm) # 2
    \/ \E i \in 1..Len(pm) : ~pm[i].num
    \/ pm[2].val \notin 1..12

\* C12: for a pay month that is not of the form YYYY-MM the calculation
\* fails with the error reported; it returns no payroll result
C12_MalformedPayMonthFails ==
    (result.returned # "not called" /\ Malformed(pay_month)
         /\ ~ShortCircuit(employee_data.base_salary))
        => (result.returned = "None" /\ result.error)

C13_PaidFlagKept ==
    [][\A row \in payroll :
           row.is_paid =>
               \E kept \in Existing(payroll', row.employee_id, row.pay_month) :
                   kept.is_paid /\ kept.pay_date = row.pay_date]_vars

(***************************************************************************)
(* Further properties of the payroll calculation                           *)
(***************************************************************************)
\* the six labeled withholdings of the result
SixComponents ==
    result.national_pension + result.health_insurance + result.long_term_care
        + result.employment_insurance + result.income_tax + result.resident_tax

\* C15: total_deductions exceeds the sum of the six labeled components by
\* the two attendance deductions, and equals that sum exactly when there is
\* no unpaid-leave and no lateness deduction
C15_SixPlusAttendance ==
    Computed =>
        /\ result.total_deductions - SixComponents
               = result.unpaid_deduction + result.lateness_deduction
        /\ result.total_deductions = SixComponents
               <=> (result.unpaid_deduction = 0 /\ result.lateness_deduction = 0)

\* a result with an unpaid day in the month
C15_Witness ==
    /\ Computed
    /\ ~Malformed(pay_month)
    /\ result.unpaid_days = 1
    /\ result.unpaid_deduction > 0
    /\ result.total_deductions > SixComponents

\* C15 as stated: for every valid input total_deductions is the sum of the
\* six labeled components
C15_SixComponentsOnly ==
    (Computed /\ ~Malformed(pay_month)) => result.total_deductions = SixComponents

\* what the kind k counts for by the stated defaults: the amount given, else
\* the baseline for the meal allowance and 0 for every other kind
Counted(k) ==
    IF ~allowances.none /\ k \in DOMAIN allowances.dict THEN allowances.dict[k]
    ELSE IF k = "meal_allowance" THEN DefaultAllowances[k] ELSE 0

\* C17: without an allowance set the result carries the meal allowance
\* 130,000 and 0 for every other kind; with a set that omits kinds every
\* omitted kind is 0, except the meal allowance, which is the baseline
C17_AllowanceDefaults ==
    Computed =>
        /\ result.net_pay + result.total_deductions
               = employee_data.base_salary
                     + SumValues([k \in AllowanceKinds |-> Counted(k)], AllowanceKinds)
                     + SumValues([k \in DOMAIN PassedAllowances \ AllowanceKinds |->
                                     PassedAllowances[k]],
                                 DOMAIN PassedAllowances \ AllowanceKinds)
        /\ \A k \in AllowanceKinds : result[k] = Counted(k)

(***************************************************************************)
(* The tax schedule and the system information page                        *)
(***************************************************************************)
\* C16: the schedule applied is the one the information page displays: one
\* more unit of taxable income above a bracket limit is taxed at the rate
\* displayed for it - 40% for everything above 300,000,000
C16_DisplayedSchedule ==
    ( /\ prev_call.fn = "bracket"
      /\ call.fn = "bracket"
      /\ prev_call.taxable_income \in FiniteLimits
      /\ call.taxable_income = prev_call.taxable_income + 1 )
        => call.value = FAdd(prev_call.value,
                             FMul(FInt(1), DisplayedRate(call.taxable_income)))

(***************************************************************************)
(* Withholdings and attendance deductions of the payroll result            *)
(***************************************************************************)
\* floor(x * num / den) for x >= 0, in exact integer arithmetic
ExactFloor(x, num, den) == (x \div den) * num + ((x % den) * num) \div den

\* C21: national_pension = floor(min(max(adjusted_salary, 400000), 6370000)
\* * 0.045), health_insurance = floor(adjusted_salary * 0.03545),
\* long_term_care = floor(health_insurance * 0.1295), employment_insurance
\* = floor(adjusted_salary * 0.009), and national_pension lies in
\* 18,000..286,650
C21_Withholdings ==
    Computed =>
        /\ result.national_pension =
               ExactFloor(Min(Max(result.adjusted_salary, 400000), 6370000), 9, 200)
        /\ result.health_insurance = ExactFloor(result.adjusted_salary, 709, 20000)
        /\ result.long_term_care = ExactFloor(result.health_insurance, 259, 2000)
        /\ result.employment_insurance = ExactFloor(result.adjusted_salary, 9, 1000)
        /\ result.national_pension \in 18000..286650

\* the minutes a row adds by the stated rule: the minutes after 09:00 of a
\* late row clocked in 30 minutes late or more, the minutes short of 8
\* hours of an early-leave row
CountedMinutes(r) ==
    IF r.status = "late" /\ r.clock_in.kind = "time" /\ MinutesLate(r) >= 30
    THEN MinutesLate(r)
    ELSE IF r.status = "early_leave" THEN Max(0, 8 * 60 - r.actual_q * 15)
    ELSE 0

RECURSIVE SumMinutes(_)
SumMinutes(rows) ==
    IF rows = {} THEN 0
    ELSE LET r == CHOOSE x \in rows : TRUE
         IN  CountedMinutes(r) + SumMinutes(rows \ {r})

\* C22: late_hours is exactly the sum of minutes late / 60 over the late
\* rows of the month at 30 minutes or more plus the hours short of 8 of the
\* early-leave rows, and lateness_deduction =
\* floor(base_salary / (workdays * 8) * late_hours)
C22_LatenessDeduction ==
    LooksUpAttendance =>
        /\ result.late_hours = FDivInt(FInt(SumMinutes(MonthRows)), 60)
        /\ result.lateness_deduction =
               (employee_data.base_salary * SumMinutes(MonthRows)) \div (Workdays * 8 * 60)

(***************************************************************************)
(* The attendance calculators called on their own                          *)
(***************************************************************************)
\* get_workdays_in_month(year, month): two ordinary years, the last year of
\* the calendar and the two just outside it, and the months 0 and 13 as well
WorkdaysCall ==
    \E year \in {0, 2024, 2025, 9999, 10000}, month \in 0..13 :
        /\ call' = [fn |-> "workdays", year |-> year, month |-> month,
                    value |-> get_workdays_in_month(year, month)]
        /\ UNCHANGED prev_call
        /\ UNCHANGED <<payroll_vars, store_vars>>

\* calculate_unpaid_leave_deduction(base_salary, unpaid_days, 2025, month)
UnpaidCall ==
    \E base_salary \in {3000000, 3200000}, unpaid_days \in {0, 1, 2, 11}, month \in 1..12 :
        /\ call' = [fn |-> "unpaid", base_salary |-> base_salary,
                    unpaid_days |-> unpaid_days, year |-> 2025, month |-> month,
                    value |-> calculate_unpaid_leave_deduction(base_salary, unpaid_days,
                                                               2025, month)]
        /\ UNCHANGED prev_call
        /\ UNCHANGED <<payroll_vars, store_vars>>

\* the rows of the month in the attendance table: those of the attendance
\* form and a late row whose clock_in is not a time of day
DeductionRows == AttendanceInputs \cup {Row(5, "late", [kind |-> "bad"], 32)}

\* get_employee_deductions(supabase, 1, '2025-01') over a table of the month
DeductionsCall ==
    \E table \in {t \in SUBSET DeductionRows : Cardinality(t) <= MaxRecords} :
        /\ call' = [fn |-> "deductions", table |-> table,
                    pay_month |-> <<Num(2025), Num(1)>>,
                    value |-> get_employee_deductions(table, 1, <<Num(2025), Num(1)>>)]
        /\ UNCHANGED prev_call
        /\ UNCHANGED <<payroll_vars, store_vars>>

WorkdaysNext == WorkdaysCall \/ UnpaidCall \/ DeductionsCall

SpecWorkdays == CallInit /\ [][WorkdaysNext]_vars

\* the records of the month tagged unpaid leave
UnpaidRows == {r \in MonthRows : r.status = "unpaid_leave"}

\* C23: the unpaid-leave deduction is floor(base_salary / workdays_in_month *
\* unpaid_days), taken from the base salary and not from gross pay, where
\* unpaid_days is the number of the month's records tagged unpaid leave; with
\* no such record the deduction is 0.
C23_UnpaidDeduction ==
    /\ call.fn = "unpaid" =>
           call.value = IF call.unpaid_days = 0 THEN 0
                        ELSE (call.base_salary * call.unpaid_days)
                                 \div get_workdays_in_month(call.year, call.month)
    /\ LooksUpAttendance =>
           /\ result.unpaid_days = Cardinality(UnpaidRows)
           /\ result.unpaid_deduction =
                  (employee_data.base_salary * Cardinality(UnpaidRows)) \div Workdays

\* Zeller's congruence: 0 is Saturday, 1 Sunday, 2 Monday, ..., 6 Friday
Zeller(y, m, d) ==
    LET yy == IF m < 3 THEN y - 1 ELSE y
        mm == IF m < 3 THEN m + 12 ELSE m
    IN  (d + (13 * (mm + 1)) \div 5 + (yy % 100) + (yy % 100) \div 4
           + (yy \div 100) \div 4 + 5 * (yy \div 100)) % 7

\* the Monday-to-Friday dates of a month
Weekdays(y, m) == {d \in 1..DaysInMonth(y, m) : Zeller(y, m, d) \in 2..6}

\* C24: for every year and every month in 1..12 get_workdays_in_month returns
\* the number of Monday-to-Friday dates of the month, a value in 20..23; for
\* an invalid year or month it returns the default 22.
C24_Workdays ==
    call.fn = "workdays" =>
        IF call.year \in 1..9999 /\ call.month \in 1..12
        THEN /\ call.value = Cardinality(Weekdays(call.year, call.month))
             /\ call.value \in 20..23
        ELSE call.value = 22

\* a late record whose clock_in is missing or cannot be parsed
NoClockIn(r) == r.status = "late" /\ r.clock_in.kind \in {"none", "bad"}

\* C25: a late record whose clock-in is missing or unparseable adds nothing to
\* late_hours and does not abort the month: unpaid_days and late_hours are
\* those of the same table without that record.
C25_BadClockInSkipped ==
    call.fn = "deductions" =>
        \A r \in call.table :
            NoClockIn(r) =>
                LET without == get_employee_deductions(call.table \ {r}, 1, call.pay_month)
                IN  /\ call.value.unpaid_days = without.unpaid_days
                    /\ call.value.late_hours = without.late_hours

\* an unparseable clock_in next to a late record that counts
C25_Witness ==
    /\ call.fn = "deductions"
    /\ \E r \in call.table : r.status = "late" /\ r.clock_in.kind = "bad"
    /\ call.value.late_hours # FZero

(* The payroll table under two sessions *)
\* C26: after any sequence of save_payroll calls, sequential or interleaved
\* between two sessions, the payroll table holds at most one row for an
\* employee and a pay month.
C26_OneRowPerMonth ==
    \A r1, r2 \in payroll :
        (r1.employee_id = r2.employee_id /\ r1.pay_month = r2.pay_month) => r1 = r2

(***************************************************************************)
(* The annual-leave columns of the employees table (src/app.py 386-401,    *)
(* 661-677, 725-755, 1194-1200, 2121-2180)                                 *)
(***************************************************************************)
\* the employees the register form adds
MaxEmployees == 1

\* the highest number of days a grant or a deduction is followed to
MaxLeaveDays == 3

\* datetime.now().date(): from the hire date to the day after the first
\* anniversary
Today(hire_date) ==
    {c \in EvaluationDates(hire_date) : c.y \in hire_date.y..(hire_date.y + 1)}

\* update(update_data).eq('id', id) on the employees table
UpdateEmployeeRow(id, update_data) ==
    {IF row.id = id THEN UpdateRow(row, update_data) ELSE row : row \in employees}

\* the register form: used_annual_leave 0, and add_employee sets the total
\* and the remaining leave from the hire date
add_employee ==
    /\ Cardinality(employees) < MaxEmployees
    /\ \E hire_date \in {[y |-> 2022, m |-> 1, d |-> 1]} :
           \E today \in Today(hire_date) :
               employees' = employees \cup
                   {[id |-> NextId(employees), hire_date |-> hire_date,
                     used_annual_leave |-> 0,
                     total_annual_leave |-> LeaveTable[hire_date][today],
                     remaining_annual_leave |-> LeaveTable[hire_date][today]]}
    /\ UNCHANGED <<payroll_vars, call_vars, payroll, sessions>>

\* add_attendance with the status annual leave: the row is inserted, and the
\* used and remaining leave of the employee are updated
add_attendance ==
    /\ Cardinality(attendance) < MaxRecords
    /\ \E day \in {14, 15, 16}, row \in employees :
           /\ Row(day, "annual_leave", [kind |-> "none"], 0) \notin attendance
           /\ attendance' = attendance
                  \cup {[Row(day, "annual_leave", [kind |-> "none"], 0)
                            EXCEPT !.employee_id = row.id]}
           /\ employees' = UpdateEmployeeRow(row.id,
                  [used_annual_leave |-> row.used_annual_leave + 1,
                   remaining_annual_leave |-> Max(0, row.remaining_annual_leave - 1)])
    /\ UNCHANGED <<employee_data, pay_month, allowances, supabase, result>>
    /\ UNCHANGED <<call_vars, payroll, sessions>>

\* the button that updates the leave of every employee listed:
\* update_employee_annual_leave for each of them
update_all_annual_leave ==
    /\ employees # {}
    /\ \E today \in UNION {Today(row.hire_date) : row \in employees} :
           /\ \A row \in employees : today \in Today(row.hire_date)
           /\ employees' =
                  {UpdateRow(row, [total_annual_leave |-> LeaveTable[row.hire_date][today]])
                      : row \in employees}
    /\ UNCHANGED <<payroll_vars, call_vars, payroll, sessions>>

\* the leave page: days are granted to the selected employee
grant_annual_leave ==
    /\ \E row \in employees, additional_days \in {1, 2} :
           /\ row.total_annual_leave + additional_days <= MaxLeaveDays
           /\ row.remaining_annual_leave + additional_days <= MaxLeaveDays
           /\ employees' = UpdateEmployeeRow(row.id,
                  [total_annual_leave |-> row.total_annual_leave + additional_days,
                   remaining_annual_leave |-> row.remaining_annual_leave + additional_days])
    /\ UNCHANGED <<payroll_vars, call_vars, payroll, sessions>>

\* the leave page: days are deducted, at most the remaining ones
deduct_annual_leave ==
    /\ \E row \in employees :
           \E deduct_days \in 1..row.remaining_annual_leave :
               /\ row.used_annual_leave + deduct_days <= MaxLeaveDays
               /\ employees' = UpdateEmployeeRow(row.id,
                   [used_annual_leave |-> row.used_annual_leave + deduct_days,
                    remaining_annual_leave |->
                        Max(0, row.remaining_annual_leave - deduct_days)])
    /\ UNCHANGED <<payroll_vars, call_vars, payroll, sessions>>

\* the leave page: the leave is reset to the value calculated from the hire date
reset_annual_leave ==
    /\ \E row \in employees :
           \E today \in Today(row.hire_date) :
               employees' = UpdateEmployeeRow(row.id,
                   [total_annual_leave |-> LeaveTable[row.hire_date][today],
                    used_annual_leave |-> 0,
                    remaining_annual_leave |-> LeaveTable[row.hire_date][today]])
    /\ UNCHANGED <<payroll_vars, call_vars, payroll, sessions>>

LeaveBalanceNext ==
    \/ add_employee
    \/ add_attendance
    \/ update_all_annual_leave
    \/ grant_annual_leave
    \/ deduct_annual_leave
    \/ reset_annual_leave

SpecLeaveBalance == StoreInit /\ [][LeaveBalanceNext]_vars

\* C27: after any sequence of add_employee, add_attendance with the status
\* annual leave, update_employee_annual_leave, leave grant, leave deduction and
\* leave reset, every employee has total_annual_leave = used_annual_leave +
\* remaining_annual_leave, with remaining_annual_leave >= 0.
C27_LeaveBalance ==
    \A row \in employees :
        /\ row.total_annual_leave = row.used_annual_leave + row.remaining_annual_leave
        /\ row.remaining_annual_leave >= 0

(* Signs and the reported allowances of the payroll result *)
\* C28: for every payroll result with base_salary > 0 and non-negative
\* allowances, every deduction component is non-negative and
\* 0 <= net_pay <= gross_pay.
C28_NetPayWithinGross ==
    (/\ Computed
     /\ employee_data.base_salary > 0
     /\ \A k \in DOMAIN PassedAllowances : PassedAllowances[k] >= 0) =>
        /\ \A c \in {"national_pension", "health_insurance", "long_term_care",
                     "employment_insurance", "income_tax", "resident_tax",
                     "unpaid_deduction", "lateness_deduction"} : result[c] >= 0
        /\ result.net_pay >= 0
        /\ result.net_pay <= GrossPay

\* C29: for every allowance mapping passed, net_pay + total_deductions equals
\* base_salary plus the sum of the ten allowance fields reported in the
\* result.
C29_GrossIsReported ==
    Computed =>
        result.net_pay + result.total_deductions
            = result.base_salary + SumValues(result, AllowanceKinds)

(* The leave entitlement over time *)
\* the evaluation dates of the hire date of the call up to its evaluation date
EarlierDates ==
    {c \in EvaluationDates(call.hire_date) :
        toordinal(c.y, c.m, c.d)
            <= toordinal(call.current_date.y, call.current_date.m, call.current_date.d)}

\* C30: for a fixed hire date calculate_annual_leave is non-decreasing in the
\* evaluation date, across the one-year boundary too, and its result is
\* within 0..25.
C30_LeaveNonDecreasing ==
    call.fn = "leave" =>
        /\ call.value \in 0..25
        /\ \A c \in EarlierDates : LeaveTable[call.hire_date][c] <= call.value

\* an evaluation after the first year, with evaluations of the first year
\* that gave 5 days and 12 days before it
C30_Witness ==
    /\ call.fn = "leave"
    /\ call.value = 15
    /\ \E c \in EarlierDates : LeaveTable[call.hire_date][c] = 5
    /\ \E c \in EarlierDates : LeaveTable[call.hire_date][c] = 12
=============================================================================
